---------------------------- MODULE Spec2Model ----------------------------
(***************************************************************************)
(* Model of the route optimiser (trendengine/engine.py) and of the place   *)
(* scorers (places/views.py) of the ivplan backend.                        *)
(*                                                                         *)
(* Lists are TLA+ sequences; a Python index k of a list of length m is     *)
(* position Norm(k, m) + 1 of the sequence, where Norm applies Python's    *)
(* wrap-around of negative indices.  Distances are integers: the           *)
(* algorithms only add and compare them.                                   *)
(***************************************************************************)
EXTENDS Integers, Sequences, FiniteSets, TLC

\* Largest number of points handed to optimize_route or posted to the
\* route-optimize endpoint.
MaxN == 4

\* Largest length of a tour handed to two_opt directly.
MaxTour == 5

\* The count of two_opt's while iterations stops here.
MaxSweeps == 3

\* The lengths haversine may return for a pair of distinct points.
Dists == {1, 2}

\* float("inf") of nearest_neighbor_order: larger than every distance.
Inf == 1000000

VARIABLES
    call,       \* what was invoked: "optimize_route", "two_opt" or
                \* "RouteOptimizeView.post"
    is_list,    \* isinstance(places, list) of the posted body
    n,          \* len(points), len(places)
    hav,        \* hav[<<i, j>>], i < j: haversine(points[i], points[j])
    start,      \* start_index
    pc,         \* position of the call
    dm,         \* the distance matrix, a list of rows
    initial,    \* the tour handed to two_opt ("order" of the result)
    order,      \* two_opt's list, reversed in place
    sweeps,     \* completed iterations of two_opt's while loop
    round,      \* 1: first call of two_opt, 2: two_opt called again on its result
    first,      \* what the first call of two_opt returned
    result,     \* the value returned by optimize_route
    unvisited,  \* RouteOptimizeView.post: the places not yet on the path
    path,       \* RouteOptimizeView.post: the route built so far
    response,   \* RouteOptimizeView.post: the Response returned
    description_column,
                \* whether the places table has a description column
    db,         \* the rows of the places table, in the order the database
                \* returns them
    request,    \* the query parameters of a places request
    outcome,    \* how the places request ended
    rows,       \* the list get_queryset returned, each place with its terms;
                \* the list AIRecommendView.get answered with
    returned,   \* what a direct call of a distance function returned
    gemini_key, \* whether settings.GEMINI_API_KEY is set
    generated   \* what model.generate_content did: raised, or its text

vars == <<call, is_list, n, hav, start, pc, dm, initial, order, sweeps, round,
          first, result, unvisited, path, response,
          description_column, db, request, outcome, rows, returned,
          gemini_key, generated>>

\* The state of the route optimiser and of its endpoint.
engine == <<call, is_list, n, hav, start, pc, dm, initial, order, sweeps, round,
            first, result, unvisited, path, response>>

\* The state of the places endpoints.
places == <<description_column, db, request, outcome, rows, returned,
            gemini_key, generated>>

\* The generative service as AIRecommendView.get meets it.
service == <<gemini_key, generated>>

\* The request: never assigned after the call.
input == <<call, is_list, n, hav, start>>

\* The state of the endpoint.
view == <<unvisited, path, response>>

----------------------------------------------------------------------------
\* Python list indexing.

InRange(k, m) == -m <= k /\ k < m

Norm(k, m) == IF k < 0 THEN k + m ELSE k

Get(list, k) == list[Norm(k, Len(list)) + 1]

Range0(m) == 0 .. (m - 1)

Pairs(m) == {p \in Range0(m) \X Range0(m) : p[1] < p[2]}

----------------------------------------------------------------------------
\* build_distance_matrix: zero table, then each unordered pair computed once
\* and written to both entries.

\* Mutant: the mirror entry mat[j][i] = d is left out.
build_distance_matrix_no_mirror(m, h) ==
    [i \in 1..m |-> [j \in 1..m |-> IF i < j THEN h[<<i - 1, j - 1>>] ELSE 0]]

build_distance_matrix(m, h) ==
    [i \in 1..m |-> [j \in 1..m |->
        IF i < j THEN h[<<i - 1, j - 1>>]
        ELSE IF j < i THEN h[<<j - 1, i - 1>>]
        ELSE 0]]

\* distance_matrix[a][b]
D(mat, a, b) == Get(Get(mat, a), b)

----------------------------------------------------------------------------
\* nearest_neighbor_order

\* Python's None for next_node: no index of a list.
None == 0 - Inf

\* Mutant: the scan does not skip visited points.
RECURSIVE ScanNearestAnyPoint(_, _, _, _, _, _)
ScanNearestAnyPoint(mat, visited, current, j, best_d, next_node) ==
    IF j = Len(mat) THEN next_node
    ELSE IF D(mat, current, j) < best_d
         THEN ScanNearestAnyPoint(mat, visited, current, j + 1, D(mat, current, j), j)
         ELSE ScanNearestAnyPoint(mat, visited, current, j + 1, best_d, next_node)

\* Mutant: <= in place of <, the scan keeps the last minimum it meets.
RECURSIVE ScanNearestLastMinimum(_, _, _, _, _, _)
ScanNearestLastMinimum(mat, visited, current, j, best_d, next_node) ==
    IF j = Len(mat) THEN next_node
    ELSE IF ~visited[j + 1] /\ D(mat, current, j) <= best_d
         THEN ScanNearestLastMinimum(mat, visited, current, j + 1, D(mat, current, j), j)
         ELSE ScanNearestLastMinimum(mat, visited, current, j + 1, best_d, next_node)

\* The inner for loop: scan j = 0..m-1 keeping the first strict minimum.
RECURSIVE ScanNearest(_, _, _, _, _, _)
ScanNearest(mat, visited, current, j, best_d, next_node) ==
    IF j = Len(mat) THEN next_node
    ELSE IF ~visited[j + 1] /\ D(mat, current, j) < best_d
         THEN ScanNearest(mat, visited, current, j + 1, D(mat, current, j), j)
         ELSE ScanNearest(mat, visited, current, j + 1, best_d, next_node)

\* The outer for loop, k iterations left.
RECURSIVE GreedyLoop(_, _, _, _, _)
GreedyLoop(mat, visited, ord, current, k) ==
    IF k = 0 THEN ord
    ELSE LET next_node == ScanNearest(mat, visited, current, 0, Inf, None)
         IN  IF next_node = None THEN ord
             ELSE GreedyLoop(mat,
                             [visited EXCEPT ![next_node + 1] = TRUE],
                             Append(ord, next_node),
                             next_node,
                             k - 1)

nearest_neighbor_order(mat, s) ==
    IF Len(mat) = 0 THEN <<>>
    ELSE GreedyLoop(mat,
                    [v \in 1..Len(mat) |-> v = Norm(s, Len(mat)) + 1],
                    <<s>>,
                    s,
                    Len(mat) - 1)

----------------------------------------------------------------------------
\* two_opt

\* Mutant: the test of line 64 with its two sides exchanged.
ImprovesExchanged(ord, mat, i, j) ==
    D(mat, Get(ord, i - 1), Get(ord, i)) + D(mat, Get(ord, j), Get(ord, j + 1))
        < D(mat, Get(ord, i - 1), Get(ord, j)) + D(mat, Get(ord, i), Get(ord, j + 1))

\* Mutant: the reversed slice is taken one place to the left,
\* order[i:j + 1] = reversed(order[i - 1:j]).
ReverseSegmentShifted(ord, i, j) ==
    [k \in 1..Len(ord) |->
        IF i + 1 <= k /\ k <= j + 1 THEN ord[i + (j + 1) - k] ELSE ord[k]]

\* order[i:j + 1] = reversed(order[i:j + 1])
ReverseSegment(ord, i, j) ==
    [k \in 1..Len(ord) |->
        IF i + 1 <= k /\ k <= j + 1 THEN ord[(i + 1) + (j + 1) - k] ELSE ord[k]]

\* Mutant: <= in place of <, a reversal that gains nothing is made too.
ImprovesOrTies(ord, mat, i, j) ==
    D(mat, Get(ord, i - 1), Get(ord, j)) + D(mat, Get(ord, i), Get(ord, j + 1))
        <= D(mat, Get(ord, i - 1), Get(ord, i)) + D(mat, Get(ord, j), Get(ord, j + 1))

\* The test of line 64 for the pair (i, j) of the list ord.
Improves(ord, mat, i, j) ==
    D(mat, Get(ord, i - 1), Get(ord, j)) + D(mat, Get(ord, i), Get(ord, j + 1))
        < D(mat, Get(ord, i - 1), Get(ord, i)) + D(mat, Get(ord, j), Get(ord, j + 1))

\* Mutant: the outer loop is range(1, n - 3), the pairs of the last i are
\* never tested.
RECURSIVE SweepFromOuterShort(_, _, _, _, _)
SweepFromOuterShort(ord, mat, i, j, improved) ==
    IF i >= Len(ord) - 3 THEN [order |-> ord, improved |-> improved]
    ELSE IF j >= Len(ord) - 1 THEN SweepFromOuterShort(ord, mat, i + 1, i + 2, improved)
    ELSE IF Improves(ord, mat, i, j)
         THEN SweepFromOuterShort(ReverseSegment(ord, i, j), mat, i, j + 1, TRUE)
         ELSE SweepFromOuterShort(ord, mat, i, j + 1, improved)

\* One iteration of the while loop: the two for loops over
\* i in range(1, n - 2), j in range(i + 1, n - 1), applying each improving
\* reversal at once and going on from the changed list.
RECURSIVE SweepFrom(_, _, _, _, _)
SweepFrom(ord, mat, i, j, improved) ==
    IF i >= Len(ord) - 2 THEN [order |-> ord, improved |-> improved]
    ELSE IF j >= Len(ord) - 1 THEN SweepFrom(ord, mat, i + 1, i + 2, improved)
    ELSE IF Improves(ord, mat, i, j)
         THEN SweepFrom(ReverseSegment(ord, i, j), mat, i, j + 1, TRUE)
         ELSE SweepFrom(ord, mat, i, j + 1, improved)

\* Mutant: improved = True is left out, the while loop runs once.
SweepUnflagged(ord, mat) ==
    [order |-> SweepFrom(ord, mat, 1, 2, FALSE).order, improved |-> FALSE]

\* Mutant: the while loop gives up after MaxSweeps - 1 iterations.
SweepCapped(ord, mat) ==
    [order |-> SweepFrom(ord, mat, 1, 2, FALSE).order,
     improved |-> /\ SweepFrom(ord, mat, 1, 2, FALSE).improved
                  /\ sweeps + 1 < MaxSweeps - 1]

Sweep(ord, mat) == SweepFrom(ord, mat, 1, 2, FALSE)

----------------------------------------------------------------------------
\* total_distance

RECURSIVE SumLegs(_, _, _)
SumLegs(ord, mat, i) ==
    IF i >= Len(ord) - 1 THEN 0
    ELSE D(mat, Get(ord, i), Get(ord, i + 1)) + SumLegs(ord, mat, i + 1)

total_distance(ord, mat) == IF ord = <<>> THEN 0 ELSE SumLegs(ord, mat, 0)

----------------------------------------------------------------------------
\* The calls.

NoResult == [order |-> <<>>, optimized_order |-> <<>>, total_distance_km |-> -1]

EmptyResult == [order |-> <<>>, optimized_order |-> <<>>, total_distance_km |-> 0]

NoResponse == [status |-> 0, error |-> "", optimized_route |-> <<>>]

NoRequest == [endpoint |-> "none"]

NoReturn == [function |-> "none"]

NoReply == [raises |-> FALSE, text |-> ""]

Identity(m) == [k \in 1..m |-> k - 1]

\* Nothing has been called yet.
Init ==
    /\ call = "none"
    /\ is_list = TRUE
    /\ n = 0
    /\ hav = <<>>
    /\ start = 0
    /\ pc = "idle"
    /\ dm = <<>>
    /\ initial = <<>>
    /\ order = <<>>
    /\ sweeps = 0
    /\ round = 1
    /\ first = <<>>
    /\ result = NoResult
    /\ unvisited = <<>>
    /\ path = <<>>
    /\ response = NoResponse
    /\ description_column = FALSE
    /\ db = <<>>
    /\ request = NoRequest
    /\ outcome = "idle"
    /\ rows = <<>>
    /\ returned = NoReturn
    /\ gemini_key = FALSE
    /\ generated = NoReply

\* A caller invokes optimize_route(points, start_index).
CallOptimizeRoute ==
    /\ pc = "idle"
    /\ \E m \in 0..MaxN :
          /\ n' = m
          /\ hav' \in [Pairs(m) -> Dists]
          /\ start' \in (-(m + 1))..m
    /\ call' = "optimize_route"
    /\ pc' = "optimize_route"
    /\ UNCHANGED <<places, is_list, dm, initial, order, sweeps, round, first, result, view>>

\* A caller invokes two_opt(order, distance_matrix) with the tour 0..n-1 and
\* a matrix made by build_distance_matrix (any other tour over a matrix is
\* this one with the points renamed).
CallTwoOpt ==
    /\ pc = "idle"
    /\ \E m \in 0..MaxTour :
          /\ n' = m
          /\ hav' \in [Pairs(m) -> Dists]
          /\ dm' = build_distance_matrix(m, hav')
          /\ initial' = Identity(m)
          /\ order' = Identity(m)
    /\ call' = "two_opt"
    /\ pc' = "two_opt"
    /\ UNCHANGED <<places, is_list, start, sweeps, round, first, result, view>>

\* POST /api/ai/route-optimize/ arrives; place k of the body is k.
PostRouteOptimize ==
    /\ pc = "idle"
    /\ is_list' \in BOOLEAN
    /\ n' \in IF is_list' THEN 0..MaxN ELSE {0}
    /\ hav' \in [Pairs(n') -> Dists]
    /\ call' = "RouteOptimizeView.post"
    /\ pc' = "RouteOptimizeView.post"
    /\ UNCHANGED <<places, start, dm, initial, order, sweeps, round, first, result, view>>

\* Mutant: the early return leaves the distance unset.
ReturnEmptyNoDistance ==
    /\ pc = "optimize_route"
    /\ n = 0
    /\ result' = NoResult
    /\ pc' = "done"
    /\ UNCHANGED <<places, input, dm, initial, order, sweeps, round, first, view>>

\* Lines 87-88: no points.
ReturnEmpty ==
    /\ pc = "optimize_route"
    /\ n = 0
    /\ result' = EmptyResult
    /\ pc' = "done"
    /\ UNCHANGED <<places, input, dm, initial, order, sweeps, round, first, view>>

\* Line 90.
BuildMatrix ==
    /\ pc = "optimize_route"
    /\ n > 0
    /\ dm' = build_distance_matrix(n, hav)
    /\ pc' = "nearest_neighbor_order"
    /\ UNCHANGED <<places, input, initial, order, sweeps, round, first, result, view>>

\* Line 91, with a start Python can index visited with; line 92 copies the tour.
NearestNeighbor ==
    /\ pc = "nearest_neighbor_order"
    /\ Len(dm) = 0 \/ InRange(start, Len(dm))
    /\ initial' = nearest_neighbor_order(dm, start)
    /\ order' = initial'
    /\ pc' = "two_opt"
    /\ UNCHANGED <<places, input, dm, sweeps, round, first, result, view>>

\* Line 34 with a start outside the list: visited[start] raises IndexError.
NearestNeighborRaises ==
    /\ pc = "nearest_neighbor_order"
    /\ Len(dm) > 0
    /\ ~InRange(start, Len(dm))
    /\ pc' = "IndexError"
    /\ UNCHANGED <<places, input, dm, initial, order, sweeps, round, first, result, view>>

\* Where a call of two_opt returns to.
AfterTwoOpt == IF call = "optimize_route" /\ round = 1 THEN "total_distance" ELSE "done"

\* Lines 53-54.
TwoOptShort ==
    /\ pc = "two_opt"
    /\ Len(order) < 4
    /\ pc' = AfterTwoOpt
    /\ UNCHANGED <<places, input, dm, initial, order, sweeps, round, first, result, view>>

\* Lines 56-68: one iteration of the while loop; the loop ends when the
\* iteration made no reversal.
TwoOptSweep ==
    /\ pc = "two_opt"
    /\ Len(order) >= 4
    /\ LET s == Sweep(order, dm)
       IN  /\ order' = s.order
           /\ pc' = IF s.improved THEN "two_opt" ELSE AfterTwoOpt
    /\ sweeps' = IF sweeps < MaxSweeps THEN sweeps + 1 ELSE sweeps
    /\ UNCHANGED <<places, input, dm, initial, round, first, result, view>>

\* Mutant: two_opt was handed the tour itself, not a copy of it.
TotalDistanceAliased ==
    /\ pc = "total_distance"
    /\ result' = [order |-> order, optimized_order |-> order,
                  total_distance_km |-> total_distance(order, dm)]
    /\ pc' = "done"
    /\ UNCHANGED <<places, input, dm, initial, order, sweeps, round, first, view>>

\* Lines 93-94 (rounding to 3 decimals is the identity on whole numbers).
TotalDistance ==
    /\ pc = "total_distance"
    /\ result' = [order |-> initial, optimized_order |-> order,
                  total_distance_km |-> total_distance(order, dm)]
    /\ pc' = "done"
    /\ UNCHANGED <<places, input, dm, initial, order, sweeps, round, first, view>>

\* The caller hands the tour two_opt returned to two_opt again, with the
\* same matrix.
TwoOptAgain ==
    /\ pc = "done"
    /\ call \in {"optimize_route", "two_opt"}
    /\ round = 1
    /\ first' = order
    /\ round' = 2
    /\ sweeps' = 0
    /\ pc' = "two_opt"
    /\ UNCHANGED <<places, input, dm, initial, order, result, view>>

----------------------------------------------------------------------------
\* RouteOptimizeView.post (trendengine/views.py)

\* haversine(a, b) of the view, for the places a and b of the body.
ViewHaversine(a, b) ==
    IF a = b THEN 0 ELSE IF a < b THEN hav[<<a, b>>] ELSE hav[<<b, a>>]

\* Mutant: of several elements with the least key the last is taken.
RECURSIVE MinFromLastMinimum(_, _, _, _)
MinFromLastMinimum(list, last, k, best) ==
    IF k > Len(list) THEN best
    ELSE IF ViewHaversine(last, list[k]) <= ViewHaversine(last, best)
         THEN MinFromLastMinimum(list, last, k + 1, list[k])
         ELSE MinFromLastMinimum(list, last, k + 1, best)

\* min(unvisited, key=...): the first element with the least key.
RECURSIVE MinFrom(_, _, _, _)
MinFrom(list, last, k, best) ==
    IF k > Len(list) THEN best
    ELSE IF ViewHaversine(last, list[k]) < ViewHaversine(last, best)
         THEN MinFrom(list, last, k + 1, list[k])
         ELSE MinFrom(list, last, k + 1, best)

Min(list, last) == MinFrom(list, last, 2, list[1])

\* list.remove(x): drops the first element equal to x.
RECURSIVE Remove(_, _)
Remove(list, x) ==
    IF list = <<>> THEN <<>>
    ELSE IF Head(list) = x THEN Tail(list)
    ELSE <<Head(list)>> \o Remove(Tail(list), x)

\* Mutant: only an empty list is turned away.
TooFewPlacesOnlyEmpty == ~is_list \/ n < 1

\* Line 133: not isinstance(places, list) or len(places) < 2
TooFewPlaces == ~is_list \/ n < 2

\* Lines 133-134.
ViewReject ==
    /\ pc = "RouteOptimizeView.post"
    /\ TooFewPlaces
    /\ response' = [status |-> 400, error |-> "Need at least 2 places",
                    optimized_route |-> <<>>]
    /\ pc' = "done"
    /\ UNCHANGED <<places, input, dm, initial, order, sweeps, round, first, result,
                   unvisited, path>>

\* Lines 146-147.
ViewStart ==
    /\ pc = "RouteOptimizeView.post"
    /\ ~TooFewPlaces
    /\ unvisited' = Tail(Identity(n))
    /\ path' = <<Head(Identity(n))>>
    /\ pc' = "while unvisited"
    /\ UNCHANGED <<places, input, dm, initial, order, sweeps, round, first, result,
                   response>>

\* Lines 148-151: one iteration of the while loop.
ViewSelect ==
    /\ pc = "while unvisited"
    /\ unvisited # <<>>
    /\ LET next_p == Min(unvisited, path[Len(path)])
       IN  /\ path' = Append(path, next_p)
           /\ unvisited' = Remove(unvisited, next_p)
    /\ UNCHANGED <<places, input, pc, dm, initial, order, sweeps, round, first, result,
                   response>>

\* Line 153.
ViewRespond ==
    /\ pc = "while unvisited"
    /\ unvisited = <<>>
    /\ response' = [status |-> 200, error |-> "", optimized_route |-> path]
    /\ pc' = "done"
    /\ UNCHANGED <<places, input, dm, initial, order, sweeps, round, first, result,
                   unvisited, path>>

\* The steps of a call that is under way.
Run ==
    \/ ReturnEmpty
    \/ BuildMatrix
    \/ NearestNeighbor
    \/ NearestNeighborRaises
    \/ TwoOptShort
    \/ TwoOptSweep
    \/ TotalDistance
    \/ TwoOptAgain
    \/ ViewReject
    \/ ViewStart
    \/ ViewSelect
    \/ ViewRespond

Next ==
    \/ CallOptimizeRoute
    \/ CallTwoOpt
    \/ PostRouteOptimize
    \/ Run

Spec == Init /\ [][Next]_vars

----------------------------------------------------------------------------
\* Text, as places/views.py compares it.

\* str.lower() of one character.
LowerChar(c) ==
    CASE c = "A" -> "a" [] c = "B" -> "b"
      [] c = "C" -> "c" [] c = "D" -> "d"
      [] c = "E" -> "e" [] c = "F" -> "f"
      [] c = "G" -> "g" [] c = "H" -> "h"
      [] c = "I" -> "i" [] c = "J" -> "j"
      [] c = "K" -> "k" [] c = "L" -> "l"
      [] c = "M" -> "m" [] c = "N" -> "n"
      [] c = "O" -> "o" [] c = "P" -> "p"
      [] c = "Q" -> "q" [] c = "R" -> "r"
      [] c = "S" -> "s" [] c = "T" -> "t"
      [] c = "U" -> "u" [] c = "V" -> "v"
      [] c = "W" -> "w" [] c = "X" -> "x"
      [] c = "Y" -> "y" [] c = "Z" -> "z"
      [] OTHER -> c

RECURSIVE LowerFrom(_, _)
LowerFrom(s, k) ==
    IF k > Len(s) THEN "" ELSE LowerChar(SubSeq(s, k, k)) \o LowerFrom(s, k + 1)

\* str.lower()
lower(s) == LowerFrom(s, 1)

\* sub in s
Contains(s, sub) ==
    \E k \in 1..(Len(s) - Len(sub) + 1) : SubSeq(s, k, k + Len(sub) - 1) = sub

\* field__icontains=sub
icontains(field, sub) == Contains(lower(field), lower(sub))

\* str.strip() of blanks.
RECURSIVE strip(_)
strip(s) ==
    IF s = "" THEN s
    ELSE IF SubSeq(s, 1, 1) = " " THEN strip(SubSeq(s, 2, Len(s)))
    ELSE IF SubSeq(s, Len(s), Len(s)) = " " THEN strip(SubSeq(s, 1, Len(s) - 1))
    ELSE s

----------------------------------------------------------------------------
\* Text, as AIRecommendView.get reads the reply of the generative service.
\* The replies of the model hold blanks for white space, and their JSON is
\* the empty object or an array of whole numbers (the ids of places).

\* s[k - 1:k], the empty string beyond the ends of s.
CharAt(s, k) == IF 1 <= k /\ k <= Len(s) THEN SubSeq(s, k, k) ELSE ""

\* str.replace(old, ""): every occurrence of old, taken from the left, is
\* dropped.
RECURSIVE replace(_, _)
replace(s, old) ==
    IF Len(s) < Len(old) THEN s
    ELSE IF SubSeq(s, 1, Len(old)) = old
         THEN replace(SubSeq(s, Len(old) + 1, Len(s)), old)
         ELSE SubSeq(s, 1, 1) \o replace(SubSeq(s, 2, Len(s)), old)

\* The value of a decimal digit, -1 for any other character.
DigitValue(c) ==
    CASE c = "0" -> 0 [] c = "1" -> 1 [] c = "2" -> 2 [] c = "3" -> 3
      [] c = "4" -> 4 [] c = "5" -> 5 [] c = "6" -> 6 [] c = "7" -> 7
      [] c = "8" -> 8 [] c = "9" -> 9
      [] OTHER -> -1

\* The first position from k on that holds no blank.
RECURSIVE SkipBlanks(_, _)
SkipBlanks(s, k) == IF CharAt(s, k) = " " THEN SkipBlanks(s, k + 1) ELSE k

\* The digits from position k on, read as a number.
RECURSIVE ScanNumber(_, _, _)
ScanNumber(s, k, value) ==
    IF DigitValue(CharAt(s, k)) >= 0
    THEN ScanNumber(s, k + 1, 10 * value + DigitValue(CharAt(s, k)))
    ELSE [pos |-> k, value |-> value]

\* json.loads raised JSONDecodeError.
JSONDecodeError == [kind |-> "JSONDecodeError", items |-> <<>>, pos |-> 0]

\* The elements of an array, the next of which begins at position k.
RECURSIVE ScanArray(_, _, _)
ScanArray(s, k, items) ==
    LET b == SkipBlanks(s, k)
        num == ScanNumber(s, b, 0)
        e == SkipBlanks(s, num.pos)
    IN  IF num.pos = b THEN JSONDecodeError
        ELSE IF CharAt(s, e) = ","
             THEN ScanArray(s, e + 1, Append(items, num.value))
        ELSE IF CharAt(s, e) = "]"
             THEN [kind |-> "list", items |-> Append(items, num.value), pos |-> e + 1]
        ELSE JSONDecodeError

\* json.loads(s): a list, a dict, or JSONDecodeError; text after the value
\* is an error ("Extra data").
json_loads(s) ==
    LET b == SkipBlanks(s, 1)
    IN  IF CharAt(s, b) = "["
        THEN LET arr == IF CharAt(s, SkipBlanks(s, b + 1)) = "]"
                        THEN [kind |-> "list", items |-> <<>>,
                              pos |-> SkipBlanks(s, b + 1) + 1]
                        ELSE ScanArray(s, b + 1, <<>>)
             IN  IF arr.kind = "list" /\ SkipBlanks(s, arr.pos) = Len(s) + 1
                 THEN [kind |-> "list", items |-> arr.items, pos |-> 0]
                 ELSE JSONDecodeError
        ELSE IF /\ CharAt(s, b) = "{" /\ CharAt(s, b + 1) = "}"
                /\ SkipBlanks(s, b + 2) = Len(s) + 1
             THEN [kind |-> "dict", items |-> <<>>, pos |-> 0]
        ELSE JSONDecodeError

\* The positions of s that hold the character c.
PositionsOf(s, c) == {k \in 1..Len(s) : SubSeq(s, k, k) = c}

\* The least and the greatest number of a set of numbers that is not empty.
Least(S) == CHOOSE x \in S : \A y \in S : x <= y

Greatest(S) == CHOOSE x \in S : \A y \in S : x >= y

\* re.search(r"(\[.*\])", s, re.S): from the first "[" to the last "]"
\* after it.
re_search(s) ==
    LET opens == PositionsOf(s, "[")
        closes == {k \in PositionsOf(s, "]") : opens # {} /\ k > Least(opens)}
    IN  IF closes = {} THEN [found |-> FALSE, group |-> ""]
        ELSE [found |-> TRUE, group |-> SubSeq(s, Least(opens), Greatest(closes))]

----------------------------------------------------------------------------
\* The tables of places/views.py.

TOURIST_KEYWORDS ==
    << "museum", "monument", "temple", "fort", "palace", "park", "national park",
       "zoo", "garden", "viewpoint", "beach", "waterfall", "hill", "lake",
       "histor", "heritage", "memorial", "archaeolog", "cathedral", "basilica",
       "shrine", "observatory", "gallery", "monastery", "gurdwara", "stupa",
       "pagoda", "ruins", "fortress", "riverfront", "island", "cave" >>

TOURIST_CATEGORIES ==
    << "attraction", "tourism", "museum", "monument", "park", "viewpoint",
       "historic", "heritage", "beach", "waterfall", "palace", "fort" >>

NOISE_CATEGORIES ==
    << "restaurant", "cafe", "bar", "pub", "fast_food", "food_court" >>

\* Case(*whens, default=...): the value of the first When whose condition
\* holds.
RECURSIVE Case(_, _, _)
Case(whens, k, default) ==
    IF k > Len(whens) THEN default
    ELSE IF whens[k].when THEN whens[k].then
    ELSE Case(whens, k + 1, default)

\* Mutant: the Whens of the noise categories are left out.
build_tourism_boost_case_no_noise(p) ==
    Case([k \in 1..Len(TOURIST_CATEGORIES) |->
             [when |-> icontains(p.category, TOURIST_CATEGORIES[k]), then |-> 20]],
         1, 0)

\* _build_tourism_boost_case, evaluated on the row p.
build_tourism_boost_case(p) ==
    Case([k \in 1..Len(TOURIST_CATEGORIES) |->
             [when |-> icontains(p.category, TOURIST_CATEGORIES[k]), then |-> 20]]
         \o
         [k \in 1..Len(NOISE_CATEGORIES) |->
             [when |-> icontains(p.category, NOISE_CATEGORIES[k]), then |-> -10]],
         1, 0)

\* Q(name__icontains=kw) | Q(address__icontains=kw) | Q(description__icontains=kw)
AnyTextContains(p, kw) ==
    \/ icontains(p.name, kw)
    \/ icontains(p.address, kw)
    \/ icontains(p.description, kw)

\* _name_desc_keyword_boost, evaluated on the row p.
name_desc_keyword_boost(p) ==
    Case([k \in 1..Len(TOURIST_KEYWORDS) |->
             [when |-> AnyTextContains(p, TOURIST_KEYWORDS[k]), then |-> 3]],
         1, 0)

\* tourist_q of the three views.
tourist_q(p) ==
    \/ \E k \in 1..Len(TOURIST_KEYWORDS) : AnyTextContains(p, TOURIST_KEYWORDS[k])
    \/ \E k \in 1..Len(TOURIST_CATEGORIES) : icontains(p.category, TOURIST_CATEGORIES[k])

\* Coalesce(F("popularity_score"), Value(0.0)) and popularity_score or 0.0
Coalesce(x) == IF x = None THEN 0 ELSE x

----------------------------------------------------------------------------
\* Great-circle distance.  Coordinates are whole degrees, multiples of 60:
\* for these the squared sines of the half angles and the cosines are exact
\* fractions, so the sum "aa" of the haversine formula is an exact number of
\* sixteenths.  Distances are whole kilometres.

Abs(x) == IF x < 0 THEN -x ELSE x

\* 4 * math.sin(math.radians(d) / 2) ** 2
SinSqHalf4(d) == <<0, 1, 3, 4, 3, 1>>[((Abs(d) \div 60) % 6) + 1]

\* 2 * math.cos(math.radians(d))
Cos2(d) == <<2, 1, -1, -2, -1, 1>>[((Abs(d) \div 60) % 6) + 1]

\* R * 2 * math.atan2(math.sqrt(aa), math.sqrt(1 - aa)) for R = 6371 and
\* aa = k / 16, to the nearest kilometre.
ArcKm(k) ==
    <<0, 3220, 4605, 5706, 6672, 7559, 8398, 9209, 10008, 10806, 11617, 12457,
      13343, 14309, 15411, 16795, 20015>>[k + 1]

\* Mutant: the cosine of a_lat taken twice.
haversine_one_latitude(a_lat, a_lon, b_lat, b_lon) ==
    LET dlat == b_lat - a_lat
        dlon == b_lon - a_lon
        aa == 4 * SinSqHalf4(dlat) + Cos2(a_lat) * Cos2(a_lat) * SinSqHalf4(dlon)
    IN  ArcKm(aa)

\* haversine of trendengine/engine.py
haversine(a_lat, a_lon, b_lat, b_lon) ==
    LET dlat == b_lat - a_lat
        dlon == b_lon - a_lon
        aa == 4 * SinSqHalf4(dlat) + Cos2(a_lat) * Cos2(b_lat) * SinSqHalf4(dlon)
    IN  ArcKm(aa)

\* Mutant: a candidate at the radius is turned away.
within_radius_strict(lat1, lon1, lat2, lon2, radius_km) ==
    LET dlat == lat2 - lat1
        dlon == lon2 - lon1
        a == 4 * SinSqHalf4(dlat) + Cos2(lat1) * Cos2(lat2) * SinSqHalf4(dlon)
        distance == ArcKm(a)
    IN  distance < radius_km

\* within_radius of places/utils.py
within_radius(lat1, lon1, lat2, lon2, radius_km) ==
    LET dlat == lat2 - lat1
        dlon == lon2 - lon1
        a == 4 * SinSqHalf4(dlat) + Cos2(lat1) * Cos2(lat2) * SinSqHalf4(dlon)
        distance == ArcKm(a)
    IN  distance <= radius_km

\* The latitudes and longitudes of well-formed points.
Lats == {-60, 0, 60}

Lons == {-180, -120, -60, 0, 60, 120, 180}

----------------------------------------------------------------------------
\* The requests to the places endpoints.

\* Largest number of rows in the places table.
MaxPlaces == 2

\* Rows the table may hold.
SamplePlaces ==
    { [name |-> "Red Fort", address |-> "Old Delhi", category |-> "Historic Fort",
       description |-> "", popularity_score |-> 5,
       latitude |-> 0, longitude |-> 180],
      [name |-> "Fortress Museum", address |-> "Park Street, Delhi",
       category |-> "museum", description |-> "Heritage gallery",
       popularity_score |-> 0,
       latitude |-> 0, longitude |-> -180],
      [name |-> "Cafe Blue", address |-> "Delhi", category |-> "restaurant",
       description |-> "", popularity_score |-> 7,
       latitude |-> 0, longitude |-> 120],
      [name |-> "Hill Mart", address |-> "Delhi", category |-> "shop",
       description |-> "", popularity_score |-> 4,
       latitude |-> 0, longitude |-> 120],
      [name |-> "Lake View", address |-> "Mall Road, Delhi",
       category |-> "viewpoint;bar", description |-> "", popularity_score |-> None,
       latitude |-> 60, longitude |-> 0],
      [name |-> "City Mall", address |-> "Ring Road, Delhi", category |-> "shop",
       description |-> "", popularity_score |-> 25,
       latitude |-> 0, longitude |-> 180],
      [name |-> "Lake Cafe", address |-> "Delhi", category |-> "cafe",
       description |-> "", popularity_score |-> 2,
       latitude |-> 60, longitude |-> 0] }

Tables == UNION {[1..m -> SamplePlaces] : m \in 1..MaxPlaces}

\* The row as a query or getattr(p, "description", "") sees it.
Row(k) ==
    IF description_column THEN db[k] ELSE [db[k] EXCEPT !.description = ""]

\* GET /api/places/search/ arrives.
GetSearch ==
    /\ outcome = "idle"
    /\ db' \in Tables
    /\ description_column' \in BOOLEAN
    /\ request' \in [endpoint : {"search"},
                     search : {"", " delhi ", "fort"},
                     only_tourist : BOOLEAN,
                     boost_tourist : BOOLEAN,
                     min_score : {-9999, 10},
                     limit : {200, 1}]
    /\ outcome' = "get_queryset"
    /\ UNCHANGED <<engine, service, rows, returned>>

\* query_params.get(name, default): None stands for a parameter left out.
Param(x, default) == IF x = None THEN default ELSE x

\* GET /api/places/nearby/ arrives.
GetNearby ==
    /\ outcome = "idle"
    /\ db' \in Tables
    /\ description_column' \in BOOLEAN
    /\ request' \in [endpoint : {"nearby"},
                     only_tourist : BOOLEAN,
                     lat : {None, 0, 120},
                     lon : {120, 180},
                     radius : {None, 100, 6671, 6672}]
    /\ outcome' = "get_queryset"
    /\ UNCHANGED <<engine, service, rows, returned>>

\* A caller invokes haversine(a_lat, a_lon, b_lat, b_lon).
CallHaversine ==
    /\ outcome = "idle"
    /\ \E a_lat \in Lats, a_lon \in Lons, b_lat \in Lats, b_lon \in Lons :
          returned' = [function |-> "haversine",
                       args |-> <<a_lat, a_lon, b_lat, b_lon>>,
                       value |-> haversine(a_lat, a_lon, b_lat, b_lon)]
    /\ outcome' = "returned"
    /\ UNCHANGED <<engine, service, description_column, db, request, rows>>

\* A caller invokes within_radius(lat1, lon1, lat2, lon2, radius_km).
CallWithinRadius ==
    /\ outcome = "idle"
    /\ \E lat1 \in {0, 60}, lon1 \in {0, 120}, lat2 \in Lats, lon2 \in Lons,
          radius_km \in {0, 3219, 3220, 6672, 20016} :
          returned' = [function |-> "within_radius",
                       args |-> <<lat1, lon1, lat2, lon2, radius_km>>,
                       value |-> within_radius(lat1, lon1, lat2, lon2, radius_km)]
    /\ outcome' = "returned"
    /\ UNCHANGED <<engine, service, description_column, db, request, rows>>

\* The arrangements of the row numbers in S that keep to "before", the
\* set of the pairs of rows of which the first may come first.
Ordered(S, before) ==
    {f \in [1..Cardinality(S) -> S] :
        \A i, j \in 1..Cardinality(S) :
            i < j => (f[i] # f[j] /\ <<f[i], f[j]>> \in before)}

\* qs[:limit]
Slice(list, limit) ==
    SubSeq(list, 1, IF limit < Len(list) THEN limit ELSE Len(list))

----------------------------------------------------------------------------
\* PlaceSearchView.get_queryset

\* Lines 114-131: the annotations of row k.
SearchRow(k) ==
    LET p == Row(k)
        pop == Coalesce(p.popularity_score)
        tb == build_tourism_boost_case(p)
        kb == name_desc_keyword_boost(p)
    IN  [id |-> k,
         pop_score_coalesced |-> pop,
         tourism_boost |-> tb,
         keyword_boost |-> kb,
         combined_score |-> IF request.boost_tourist THEN pop + tb + kb ELSE pop]

\* Lines 97-102.
SearchMatches(p, search) ==
    \/ icontains(p.name, search)
    \/ icontains(p.address, search)
    \/ icontains(p.category, search)
    \/ icontains(p.description, search)

\* Line 137: order_by("-combined_score", "-pop_score_coalesced"); the
\* database orders rows that agree on both as it likes.
SearchBefore(a, b) ==
    \/ a.combined_score > b.combined_score
    \/ /\ a.combined_score = b.combined_score
       /\ a.pop_score_coalesced >= b.pop_score_coalesced

\* Lines 93-94.
SearchNothing ==
    /\ outcome = "get_queryset"
    /\ request.endpoint = "search"
    /\ strip(request.search) = ""
    /\ rows' = <<>>
    /\ outcome' = "ok"
    /\ UNCHANGED <<engine, service, description_column, db, request, returned>>

\* Lines 97-102 on a table without a description column: the lookup
\* description__icontains raises FieldError.
SearchFieldError ==
    /\ outcome = "get_queryset"
    /\ request.endpoint = "search"
    /\ strip(request.search) # ""
    /\ ~description_column
    /\ rows' = <<>>
    /\ outcome' = "FieldError"
    /\ UNCHANGED <<engine, service, description_column, db, request, returned>>

\* Lines 97-139.
Search ==
    /\ outcome = "get_queryset"
    /\ request.endpoint = "search"
    /\ strip(request.search) # ""
    /\ description_column
    /\ LET search == strip(request.search)
           qs == [k \in DOMAIN db |-> SearchRow(k)]
           kept == {k \in DOMAIN db :
                       /\ SearchMatches(Row(k), search)
                       /\ request.only_tourist => tourist_q(Row(k))
                       /\ qs[k].combined_score >= request.min_score}
           before == {ab \in kept \X kept : SearchBefore(qs[ab[1]], qs[ab[2]])}
       IN  \E f \in Ordered(kept, before) :
              rows' = Slice([i \in 1..Cardinality(kept) |-> qs[f[i]]],
                            request.limit)
    /\ outcome' = "ok"
    /\ UNCHANGED <<engine, service, description_column, db, request, returned>>

----------------------------------------------------------------------------
\* PlaceRadiusView.get_queryset

\* Lines 194-206: compute_score, with the two parts of boost kept apart.
compute_score(k) ==
    LET p == Row(k)
        pop == Coalesce(p.popularity_score)
        category == lower(p.category)
        name_addr_desc == lower(p.name \o " " \o p.address \o " " \o p.description)
        cats == {c \in 1..Len(TOURIST_CATEGORIES) :
                    Contains(category, TOURIST_CATEGORIES[c])}
        kws == {w \in 1..Len(TOURIST_KEYWORDS) :
                    Contains(name_addr_desc, TOURIST_KEYWORDS[w])}
    IN  [id |-> k,
         pop_score_coalesced |-> pop,
         tourism_boost |-> 20 * Cardinality(cats),
         keyword_boost |-> 3 * Cardinality(kws),
         combined_score |-> pop + 20 * Cardinality(cats) + 3 * Cardinality(kws)]

\* Line 208: list.sort(key=compute_score, reverse=True) keeps rows of equal
\* score in the order they had.
NearbyBefore(a, b) ==
    \/ a.combined_score > b.combined_score
    \/ /\ a.combined_score = b.combined_score
       /\ a.id < b.id

\* 10000 * max(0.0001, math.cos(math.radians(lat)))
CosClamped(lat) == IF 5000 * Cos2(lat) > 1 THEN 5000 * Cos2(lat) ELSE 1

\* Lines 158-167: the bounding box around (lat, lon), each comparison
\* multiplied through by the divisor of its delta:
\* delta_lat = radius / 111.0, delta_lon = radius / (111.0 * max(0.0001, cos)).
InBox(p, lat, lon, radius) ==
    /\ 111 * p.latitude >= 111 * lat - radius
    /\ 111 * p.latitude <= 111 * lat + radius
    /\ 111 * CosClamped(lat) * p.longitude
           >= 111 * CosClamped(lat) * lon - 10000 * radius
    /\ 111 * CosClamped(lat) * p.longitude
           <= 111 * CosClamped(lat) * lon + 10000 * radius

\* Lines 179-188: within_radius(place) of the view.
PlaceWithinRadius(place, lat, lon, radius) ==
    LET dlat == place.latitude - lat
        dlon == place.longitude - lon
        a == 4 * SinSqHalf4(dlat) + Cos2(lat) * Cos2(place.latitude) * SinSqHalf4(dlon)
        c == ArcKm(a)
    IN  c <= radius

\* Lines 150-152.
NearbyLat == Param(request.lat, 0)

NearbyLon == Param(request.lon, 0)

NearbyRadius == Param(request.radius, 10)

\* Lines 169-176 on a table without a description column.
NearbyFieldError ==
    /\ outcome = "get_queryset"
    /\ request.endpoint = "nearby"
    /\ request.only_tourist
    /\ ~description_column
    /\ rows' = <<>>
    /\ outcome' = "FieldError"
    /\ UNCHANGED <<engine, service, description_column, db, request, returned>>

\* Lines 162-209.
Nearby ==
    /\ outcome = "get_queryset"
    /\ request.endpoint = "nearby"
    /\ request.only_tourist => description_column
    /\ LET kept == {k \in DOMAIN db :
                       /\ InBox(db[k], NearbyLat, NearbyLon, NearbyRadius)
                       /\ request.only_tourist => tourist_q(Row(k))
                       /\ PlaceWithinRadius(db[k], NearbyLat, NearbyLon,
                                            NearbyRadius)}
           scored == [k \in DOMAIN db |-> compute_score(k)]
           before == {ab \in kept \X kept :
                         NearbyBefore(scored[ab[1]], scored[ab[2]])}
       IN  \E f \in Ordered(kept, before) :
              rows' = [i \in 1..Cardinality(kept) |-> scored[f[i]]]
    /\ outcome' = "ok"
    /\ UNCHANGED <<engine, service, description_column, db, request, returned>>

----------------------------------------------------------------------------
\* AIRecommendView.get (trendengine/views.py)

\* The fence of a Markdown code block, three grave accents in the reply;
\* a TLA+ string cannot hold that character and three apostrophes stand
\* for it.
Fence == "'''"

\* What model.generate_content(prompt) may do: raise, or answer with a text.
Replies ==
    [raises : {TRUE}, text : {""}]
    \cup [raises : {FALSE},
          text : {"[2, 1]", Fence \o "json [1] " \o Fence, "Top picks: [2, 1] enjoy",
                  "Sorry, no idea", "", "{}", "[1] or [2]"}]

\* The tables of the endpoint: popularity_score is a FloatField(default=0),
\* never null.
RecommendTables == {t \in Tables : \A k \in DOMAIN t : t[k].popularity_score # None}

\* GET /api/ai/recommend/ arrives; settings.GEMINI_API_KEY is set or not.
GetRecommend ==
    /\ outcome = "idle"
    /\ db' \in RecommendTables
    /\ description_column' = FALSE
    /\ request' \in [endpoint : {"recommend"},
                     city : {"", " fort "},
                     category : {"", "shop"},
                     limit : {5, 1}]
    /\ gemini_key' \in BOOLEAN
    /\ generated' \in (IF gemini_key' THEN Replies ELSE {NoReply})
    /\ outcome' = "get"
    /\ UNCHANGED <<engine, rows, returned>>

\* Lines 39-43: the filters on city and category.
RecommendMatches(p, city, category) ==
    /\ city # "" => (icontains(p.name, city) \/ icontains(p.address, city))
    /\ category # "" => icontains(p.category, category)

\* Lines 37-49: list(qs[:200]) after order_by("-popularity_score"); the
\* database orders rows of equal popularity as it likes.
LimitedLists ==
    LET kept == {k \in DOMAIN db :
                    RecommendMatches(db[k], strip(request.city),
                                     strip(request.category))}
        before == {ab \in kept \X kept :
                      db[ab[1]].popularity_score >= db[ab[2]].popularity_score}
    IN  {Slice(f, 200) : f \in Ordered(kept, before)}

\* The row number k put into a list of row numbers that is sorted by
\* popularity, highest first, behind the rows at least as popular.
RECURSIVE InsertByScore(_, _)
InsertByScore(list, k) ==
    IF list = <<>> THEN <<k>>
    ELSE IF db[Head(list)].popularity_score >= db[k].popularity_score
         THEN <<Head(list)>> \o InsertByScore(Tail(list), k)
         ELSE <<k>> \o list

\* sorted(list, key=lambda p: p.popularity_score, reverse=True): stable.
RECURSIVE sorted(_)
sorted(list) ==
    IF list = <<>> THEN <<>>
    ELSE InsertByScore(sorted(SubSeq(list, 1, Len(list) - 1)), list[Len(list)])

\* Lines 84-94: the value of data for the text of the reply; a
\* JSONDecodeError of the second json.loads leaves the try block.
GeminiData(text) ==
    LET raw == strip(text)
        clean == strip(replace(replace(raw, Fence \o "json"), Fence))
        m == re_search(clean)
    IN  IF json_loads(clean).kind # "JSONDecodeError" THEN json_loads(clean)
        ELSE IF m.found THEN json_loads(m.group)
        ELSE [kind |-> "list", items |-> <<>>, pos |-> 0]

\* Lines 69-97: the key is set, the service answered and data is a list.
RecommendGemini ==
    /\ outcome = "get"
    /\ request.endpoint = "recommend"
    /\ gemini_key
    /\ ~generated.raises
    /\ GeminiData(generated.text).kind = "list"
    /\ rows' = Slice(GeminiData(generated.text).items, request.limit)
    /\ outcome' = "Response"
    /\ UNCHANGED <<engine, service, description_column, db, request, returned>>

\* Lines 102-115: no key, an exception inside the try block, or data that
\* is no list.
RecommendFallback ==
    /\ outcome = "get"
    /\ request.endpoint = "recommend"
    /\ \/ ~gemini_key
       \/ generated.raises
       \/ GeminiData(generated.text).kind # "list"
    /\ \E limited_list \in LimitedLists :
          LET fallback == Slice(sorted(limited_list), request.limit)
          IN  rows' = [i \in 1..Len(fallback) |->
                          [id |-> fallback[i],
                           reason |-> "Popular choice",
                           score |-> db[fallback[i]].popularity_score]]
    /\ outcome' = "Response"
    /\ UNCHANGED <<engine, service, description_column, db, request, returned>>

PlacesNext ==
    \/ GetSearch
    \/ GetNearby
    \/ SearchNothing
    \/ SearchFieldError
    \/ Search
    \/ NearbyFieldError
    \/ Nearby
    \/ CallHaversine
    \/ CallWithinRadius
    \/ GetRecommend
    \/ RecommendGemini
    \/ RecommendFallback

PlacesSpec == Init /\ [][PlacesNext]_vars

----------------------------------------------------------------------------
\* Properties of the route optimiser.

\* A list in which every index 0..m-1 appears exactly once.
IsPermutation(t, m) ==
    /\ Len(t) = m
    /\ \A x \in Range0(m) : Cardinality({k \in 1..Len(t) : t[k] = x}) = 1

ValidStart == 0 <= start /\ start < n

\* nearest_neighbor_order has returned into optimize_route.
ConstructionDone ==
    call = "optimize_route" /\ n >= 1 /\ pc \in {"two_opt", "total_distance", "done"}

\* C1: for a matrix of n >= 1 points with finite entries and a start in
\* 0..n-1, the tour nearest_neighbor_order returns has length n, holds every
\* index 0..n-1 exactly once and begins with start.
C1_NearestNeighborPermutation ==
    (ConstructionDone /\ ValidStart) =>
        /\ IsPermutation(initial, n)
        /\ initial[1] = start

\* A construction over four points from start 2 that went on to point 3.
C1_Witness ==
    /\ ConstructionDone /\ ValidStart
    /\ n = 4 /\ start = 2 /\ initial[2] = 3

\* two_opt has returned.
TwoOptReturned ==
    /\ call \in {"optimize_route", "two_opt"}
    /\ pc \in {"total_distance", "done"}

\* C2: the open-path length of the tour two_opt returns is at most the
\* length of the tour it was given, and the distance optimize_route reports
\* is at most the length of its nearest-neighbour tour.
C2_TwoOptNeverLonger ==
    /\ TwoOptReturned =>
           total_distance(order, dm) <= total_distance(initial, dm)
    /\ (call = "optimize_route" /\ pc = "done") =>
           result.total_distance_km <= total_distance(result.order, dm)

\* two_opt returned a strictly shorter tour inside optimize_route.
C2_Witness ==
    /\ call = "optimize_route" /\ pc = "done" /\ round = 1
    /\ result.total_distance_km < total_distance(result.order, dm)

\* C3: for a non-empty point list and a valid start_index, the list two_opt
\* works on is at every reversal a permutation of 0..n-1 that begins with
\* start_index, and it is what optimize_route returns as optimized_order.
C3_OptimizedOrderPermutation ==
    /\ (ConstructionDone /\ ValidStart) =>
           /\ IsPermutation(order, n)
           /\ order[1] = start
    /\ (ConstructionDone /\ pc = "done") => result.optimized_order = order

\* optimize_route returned a tour that two_opt had reversed a segment of.
C3_Witness ==
    /\ call = "optimize_route" /\ pc = "done" /\ ValidStart
    /\ n = 4 /\ start = 1
    /\ result.optimized_order # result.order

\* C4: two_opt called on a tour two_opt returned, with the same matrix,
\* returns the same sequence.
C4_TwoOptIdempotent ==
    (pc = "done" /\ round = 2) => order = first

\* The second call has returned, and the first one had changed its tour.
C4_Witness ==
    /\ pc = "done" /\ round = 2
    /\ Len(first) >= 4
    /\ first # initial
    /\ order = first

\* C5: over a symmetric non-negative matrix the while loop of two_opt ends:
\* every iteration that does not end the loop leaves a strictly shorter
\* tour, and a tour's length is a whole number that is never negative, so
\* only finitely many iterations reverse a segment.
C5_TwoOptTerminates ==
    [][(pc = "two_opt" /\ pc' = "two_opt") =>
          /\ total_distance(order', dm') < total_distance(order, dm)
          /\ total_distance(order', dm') >= 0]_vars

\* A first call left the loop after two sweeps that reversed and one that did not.
C5_Witness ==
    /\ call = "two_opt" /\ round = 1 /\ pc = "done"
    /\ sweeps = 3
    /\ order # initial

\* build_distance_matrix has been applied to the n points.
MatrixBuilt ==
    \/ call = "two_opt"
    \/ call = "optimize_route" /\ n >= 1 /\ pc # "optimize_route"

\* C6: build_distance_matrix returns an n x n table that is symmetric and
\* zero on the diagonal: the empty table for no point, the single entry 0
\* for one point.
C6_MatrixSymmetricZeroDiagonal ==
    MatrixBuilt =>
        /\ Len(dm) = n
        /\ \A i \in 1..n :
              /\ Len(dm[i]) = n
              /\ dm[i][i] = 0
              /\ \A j \in 1..n : dm[i][j] = dm[j][i]
        /\ n = 0 => dm = <<>>
        /\ n = 1 => dm = << <<0>> >>

\* optimize_route has built a table of three or more points with two
\* different lengths in it.
C6_Witness ==
    /\ MatrixBuilt
    /\ call = "optimize_route" /\ pc = "nearest_neighbor_order"
    /\ n >= 3
    /\ dm[1][2] = 2 /\ dm[2][1] = 2 /\ dm[2][3] = 1

\* C7: optimize_route with no points returns order = [], optimized_order =
\* [] and total_distance_km = 0.0 whatever start_index is, and raises nothing.
C7_EmptyInputEmptyResult ==
    (call = "optimize_route" /\ n = 0) =>
        /\ pc # "IndexError"
        /\ pc # "optimize_route" =>
              /\ result.order = <<>>
              /\ result.optimized_order = <<>>
              /\ result.total_distance_km = 0

\* The empty call has returned, for a start_index that indexes nothing.
C7_Witness ==
    /\ call = "optimize_route" /\ n = 0 /\ start = -1
    /\ pc = "done" /\ round = 1

\* C8: a route request with fewer than 2 places is answered with the error
\* "Need at least 2 places" (status 400), and no route, not even a
\* single-place one, is built or returned for it.
C8_ShortRequestRejected ==
    (call = "RouteOptimizeView.post" /\ (~is_list \/ n < 2)) =>
        /\ pc \in {"RouteOptimizeView.post", "done"}
        /\ path = <<>>
        /\ result = NoResult
        /\ pc = "done" =>
              /\ response.status = 400
              /\ response.error = "Need at least 2 places"
              /\ response.optimized_route = <<>>

\* A request with a single place has been answered.
C8_Witness ==
    /\ call = "RouteOptimizeView.post" /\ is_list /\ n = 1
    /\ pc = "done"
    /\ response.status = 400

\* The iteration cap the checks below assume for two_opt.
IterationCap == MaxSweeps - 1

C17_InvalidStartFailsLoudly ==
    (/\ call = "optimize_route" /\ n >= 1 /\ ~ValidStart
     /\ pc \notin {"optimize_route", "nearest_neighbor_order"}) =>
        pc = "IndexError"

\* C19: within optimize_route, nearest_neighbor_order, two_opt and
\* total_distance leave the distance matrix as it was built, two_opt leaves
\* the nearest-neighbour tour as it was, and the tour returned as "order" is
\* that nearest-neighbour tour.
C19_TwoOptWorksOnCopy ==
    [][(/\ call = "optimize_route"
        /\ pc \in {"nearest_neighbor_order", "two_opt", "total_distance"}) =>
          /\ dm' = dm
          /\ pc \in {"two_opt", "total_distance"} => initial' = initial
          /\ (pc = "total_distance" /\ pc' = "done") =>
                /\ result'.order = initial
                /\ InRange(start, n) =>
                       result'.order = nearest_neighbor_order(dm, start)]_vars

\* optimize_route returned a nearest-neighbour tour from start 0 that
\* two_opt had changed.
C19_Witness ==
    /\ call = "optimize_route" /\ pc = "done" /\ round = 1
    /\ n = 4 /\ start = 0
    /\ result.order = nearest_neighbor_order(dm, start)
    /\ result.optimized_order # result.order

\* The indices nearest_neighbor_order has marked in visited when the tour t
\* over m points holds its first k entries.
VisitedAfter(t, m, k) == {Norm(t[q], m) : q \in 1..k}

\* C21: every index nearest_neighbor_order appends is an unvisited one whose
\* distance from the current point is the least among the unvisited ones,
\* and of several unvisited indices at that least distance it is the
\* lowest; n - 1 indices are appended.
C21_NearestUnvisitedLowestIndex ==
    (ConstructionDone /\ InRange(start, n)) =>
        /\ Len(initial) = n
        /\ \A k \in 1..(Len(initial) - 1) :
              LET current == initial[k]
                  appended == initial[k + 1]
                  open == Range0(n) \ VisitedAfter(initial, n, k)
              IN  /\ appended \in open
                  /\ \A j \in open :
                        /\ D(dm, current, appended) <= D(dm, current, j)
                        /\ D(dm, current, appended) = D(dm, current, j) =>
                               appended <= j

\* From point 3 of four the points 0 and 1 were equally near and point 2
\* farther: 0 was appended.
C21_Witness ==
    /\ ConstructionDone
    /\ n = 4 /\ start = 3
    /\ D(dm, 3, 0) = 1 /\ D(dm, 3, 1) = 1 /\ D(dm, 3, 2) = 2
    /\ initial[2] = 0

\* The tour the call of two_opt that has returned was given.
GivenTour == IF round = 1 THEN initial ELSE first

\* C22: the tour t two_opt returns is a 2-opt local optimum: for no pair
\* (i, j), 1 <= i < j <= n - 2, is d(t[i-1], t[j]) + d(t[i], t[j+1]) less
\* than d(t[i-1], t[i]) + d(t[j], t[j+1]); a tour of fewer than 4 entries
\* has no such pair and is returned as it was given.
C22_ReturnsLocalOptimum ==
    TwoOptReturned =>
        /\ \A i \in 1..(Len(order) - 2) :
              \A j \in (i + 1)..(Len(order) - 2) :
                  D(dm, Get(order, i - 1), Get(order, j))
                          + D(dm, Get(order, i), Get(order, j + 1))
                      >= D(dm, Get(order, i - 1), Get(order, i))
                          + D(dm, Get(order, j), Get(order, j + 1))
        /\ Len(GivenTour) < 4 => order = GivenTour

\* two_opt returned the tour 0..4 with a segment reversed, after two
\* iterations of its loop.
C22_Witness ==
    /\ call = "two_opt" /\ pc = "done" /\ round = 1
    /\ Len(order) = 5 /\ sweeps = 2
    /\ order # GivenTour

\* A route request with a list of at least 2 places is being answered.
RouteRequest == call = "RouteOptimizeView.post" /\ is_list /\ n >= 2

\* nearest_neighbor_order from start 0 on the pairwise distances of the
\* places of the request.
EngineTour == nearest_neighbor_order(build_distance_matrix(n, hav), 0)

\* C25: for a request list of at least 2 places, the route of
\* RouteOptimizeView is the places in the order in which
\* nearest_neighbor_order, on the same pairwise distances and from start 0,
\* visits their indices: the path grows as a prefix of that tour, one place
\* a selection, and the route returned after n - 1 selections is that tour,
\* a permutation of the places that begins with the first one.
C25_ViewFollowsNearestNeighbor ==
    RouteRequest =>
        /\ pc = "while unvisited" =>
              /\ Len(path) + Len(unvisited) = n
              /\ path = SubSeq(EngineTour, 1, Len(path))
        /\ pc = "done" =>
              /\ response.status = 200
              /\ response.optimized_route = EngineTour
              /\ IsPermutation(response.optimized_route, n)
              /\ response.optimized_route[1] = 0
              /\ Len(path) = n /\ unvisited = <<>>

\* A request of four places was answered with the route 0, 2, 1, 3; from
\* place 2 the places 1 and 3 were equally near.
C25_Witness ==
    /\ RouteRequest /\ pc = "done"
    /\ n = 4
    /\ hav[<<1, 2>>] = hav[<<2, 3>>]
    /\ response.optimized_route = <<0, 2, 1, 3>>

----------------------------------------------------------------------------
\* Properties of place scoring.

\* The rules of the category term in priority order, with the default
\* weights: the tourist categories, then the noise categories.
CategoryRules ==
    [k \in 1..Len(TOURIST_CATEGORIES) |-> <<TOURIST_CATEGORIES[k], 20>>]
    \o [k \in 1..Len(NOISE_CATEGORIES) |-> <<NOISE_CATEGORIES[k], -10>>]

\* A places endpoint has returned its list.
Scored == outcome = "ok"

\* C9: the category term of every place an endpoint scores is the weight
\* of the first rule, tourist rules before noise rules, whose substring
\* occurs in the place's category whatever the case; the weights of further
\* matching rules are not added, and the term is 0 when no rule matches.
\* PlaceRadiusView's compute_score breaks it: it adds 20 for every tourist
\* category that matches and knows no noise rule.
C9_CategoryTermFirstRule ==
    Scored =>
        \A i \in 1..Len(rows) :
            LET category == lower(db[rows[i].id].category)
                matching == {k \in DOMAIN CategoryRules :
                                Contains(category, lower(CategoryRules[k][1]))}
            IN  IF matching = {} THEN rows[i].tourism_boost = 0
                ELSE \E k \in matching :
                        /\ \A j \in matching : k <= j
                        /\ rows[i].tourism_boost = CategoryRules[k][2]

\* C10: the keyword term of every place an endpoint scores is 3 times the
\* number of keywords that occur, whatever the case, in the place's name,
\* address or description, not 3 for the first match only.
\* PlaceSearchView breaks it: _name_desc_keyword_boost is a Case, which
\* gives 3 once.
C10_KeywordTermSum ==
    Scored =>
        \A i \in 1..Len(rows) :
            LET matching == {k \in 1..Len(TOURIST_KEYWORDS) :
                                AnyTextContains(Row(rows[i].id), TOURIST_KEYWORDS[k])}
            IN  rows[i].keyword_boost = 3 * Cardinality(matching)

\* The category, lowered, holds one of the substrings of the list.
MatchesAny(category, list) ==
    \E k \in 1..Len(list) : Contains(lower(category), list[k])

\* C11: whichever endpoint scores it, a place whose category matches a
\* noise category and no tourist category has the category term -10, and a
\* place whose category matches a tourist category has the category term 20.
\* PlaceRadiusView's compute_score breaks it (the bug of C9): "restaurant"
\* gets 0 and "Historic Fort" gets 40.
C11_DefaultCategoryWeights ==
    Scored =>
        \A i \in 1..Len(rows) :
            LET category == db[rows[i].id].category
            IN  /\ MatchesAny(category, TOURIST_CATEGORIES) =>
                       rows[i].tourism_boost = 20
                /\ (/\ MatchesAny(category, NOISE_CATEGORIES)
                    /\ ~MatchesAny(category, TOURIST_CATEGORIES)) =>
                       rows[i].tourism_boost = -10

\* C12: no request ends in an error over a popularity or a text field that
\* is null or absent, and the combined score of every place scored is its
\* base plus its category term plus its keyword term, the base being the
\* popularity number, or 0 when that is null.
\* PlaceSearchView breaks it: on a Place without a description field its
\* filter raises FieldError, and with boost_tourist off the combined score
\* is the base alone.
C12_CombinedScoreIsSum ==
    /\ outcome # "FieldError"
    /\ Scored =>
          \A i \in 1..Len(rows) :
              /\ rows[i].pop_score_coalesced =
                     (IF db[rows[i].id].popularity_score = None THEN 0
                      ELSE db[rows[i].id].popularity_score)
              /\ rows[i].combined_score =
                     rows[i].pop_score_coalesced + rows[i].tourism_boost
                         + rows[i].keyword_boost

\* C13: every list an endpoint returns is ordered by combined score, highest
\* first, and among places of equal combined score by base popularity,
\* highest first: of two adjacent results the first has the higher score,
\* or the same score and a base at least that of the second.
\* PlaceRadiusView breaks it: its sort has the combined score as its only
\* key, so places of equal score stay in the order of the table.
C13_RankedByScoreThenBase ==
    Scored =>
        \A i \in 1..(Len(rows) - 1) :
            \/ rows[i].combined_score > rows[i + 1].combined_score
            \/ /\ rows[i].combined_score = rows[i + 1].combined_score
               /\ rows[i].pop_score_coalesced >= rows[i + 1].pop_score_coalesced

\* The search endpoint has returned its list.
SearchDone == request.endpoint = "search" /\ outcome = "ok"

\* Row i of the result is a place of a noise category and of no tourist
\* category.
NoiseRow(i) ==
    /\ MatchesAny(db[rows[i].id].category, NOISE_CATEGORIES)
    /\ ~MatchesAny(db[rows[i].id].category, TOURIST_CATEGORIES)

----------------------------------------------------------------------------
\* Properties of the distance functions and of the nearby search.

\* The nearby endpoint has returned its list.
NearbyDone == request.endpoint = "nearby" /\ outcome = "ok"

\* haversine from the centre of the nearby request to row k of the table.
FromCentre(k) ==
    haversine(NearbyLat, NearbyLon, db[k].latitude, db[k].longitude)

\* The row numbers of the places returned.
Returned == {rows[i].id : i \in 1..Len(rows)}

\* C14: the radius test accepts a candidate exactly when its great-circle
\* distance from the centre is at most radius_km: one at the radius is
\* accepted, and the nearby endpoint returns no place beyond the radius.
C14_RadiusTestInclusive ==
    /\ returned.function = "within_radius" =>
          returned.value =
              (haversine(returned.args[1], returned.args[2],
                         returned.args[3], returned.args[4]) <= returned.args[5])
    /\ NearbyDone => \A k \in Returned : FromCentre(k) <= NearbyRadius

\* within_radius accepted the centre itself with a radius of 0.
C14_Witness ==
    /\ returned.function = "within_radius"
    /\ returned.args = <<60, 0, 60, 0, 0>>
    /\ returned.value = TRUE

\* C15: the bounding box of the nearby search never changes the result: the
\* places returned are exactly those that pass the other filters and whose
\* great-circle distance from the centre is at most the radius.
\* The coordinates of a nearby request are given and within range.
WellFormedCentre ==
    /\ request.lat # None /\ -90 <= request.lat /\ request.lat <= 90
    /\ request.lon # None /\ -180 <= request.lon /\ request.lon <= 180

\* The box breaks it across the 180th meridian: a place at longitude -180 is
\* cut off from a centre at longitude 180, at distance 0.
C15_BoxNeverChangesResult ==
    (NearbyDone /\ WellFormedCentre /\ request.radius # None) =>
        Returned = {k \in DOMAIN db :
                       /\ FromCentre(k) <= NearbyRadius
                       /\ request.only_tourist => tourist_q(Row(k))}

\* C18: a nearby request whose coordinates are left out or out of range
\* ends in an invalid-input error: it is never answered with a list.
\* PlaceRadiusView breaks it: it takes 0 for a coordinate left out and
\* computes with a latitude of 120.
C18_MalformedCoordinatesRejected ==
    (request.endpoint = "nearby" /\ ~WellFormedCentre) => outcome # "ok"

\* C20: haversine(a, b) = haversine(b, a), haversine(a, a) = 0 and
\* haversine(a, b) >= 0 for all points a and b.
C20_HaversineSymmetric ==
    returned.function = "haversine" =>
        LET a == returned.args
        IN  /\ returned.value = haversine(a[3], a[4], a[1], a[2])
            /\ (a[1] = a[3] /\ a[2] = a[4]) => returned.value = 0
            /\ returned.value >= 0

\* haversine was called on two points of different latitude and longitude.
C20_Witness ==
    /\ returned.function = "haversine"
    /\ returned.args = <<0, 0, 60, 60>>
    /\ returned.value = 8398

----------------------------------------------------------------------------
\* Properties of the AI recommendation endpoint.

\* The recommend endpoint has answered.
RecommendDone == request.endpoint = "recommend" /\ outcome = "Response"

\* Some stretch of the text, from a "[" to a "]", is a JSON array.
TextHasArray(text) ==
    \E a \in PositionsOf(text, "[") :
        \E b \in PositionsOf(text, "]") :
            a < b /\ json_loads(SubSeq(text, a, b)).kind = "list"

\* The generative service gave no usable ranking.
NoUsableRanking ==
    \/ ~gemini_key
    \/ generated.raises
    \/ ~TextHasArray(generated.text)

\* C23: whenever the generative service gives no usable ranking (no API key,
\* an exception, a text without a JSON array that parses) the response of
\* the recommend endpoint is the places that match the request, most popular
\* first, cut at limit: never an empty list while places match.
\* AIRecommendView.get breaks it: for a text without "[...]" it sets
\* data = [] and answers with that empty list.
C23_FallsBackWithoutRanking ==
    (RecommendDone /\ NoUsableRanking) =>
        LET matches == {k \in DOMAIN db :
                           RecommendMatches(db[k], strip(request.city),
                                            strip(request.category))}
            top == IF request.limit < Cardinality(matches)
                   THEN request.limit ELSE Cardinality(matches)
        IN  /\ Len(rows) = top
            /\ \A i \in 1..Len(rows) :
                  /\ rows[i].id \in matches
                  /\ rows[i].score = db[rows[i].id].popularity_score
                  /\ \A j \in 1..Len(rows) :
                        i < j => (rows[i].id # rows[j].id
                                  /\ rows[i].score >= rows[j].score)
                  /\ \A k \in matches :
                        (\A j \in 1..Len(rows) : rows[j].id # k) =>
                            rows[i].score >= db[k].popularity_score

=============================================================================
